---- MODULE Spec2Model ----
(***************************************************************************)
(* Model of the phash_rs crate: the ImageHash fingerprint (hash.rs), the   *)
(* duplicate grouper (duplicate.rs) and the hamming_distance binding       *)
(* (lib.rs).                                                               *)
(*                                                                         *)
(* Vectors indexed by the code from 0 (images, parent, rank, the dct       *)
(* matrix) are functions on 0..n-1; lists that are only built and read     *)
(* back (paths, hex strings, bytes of a hash, results) are sequences.      *)
(* A String is a sequence of characters; a path is a sequence of bytes so  *)
(* that String's byte-wise ordering can be computed.                       *)
(***************************************************************************)
EXTENDS Integers, Sequences, FiniteSets, TLC

VARIABLES
    pc,         \* position of the running call
    images,     \* group_duplicates: Vec<ImageInfo>
    threshold,  \* group_duplicates / find_duplicates: threshold
    parent,     \* group_duplicates: union-find parent
    rank,       \* group_duplicates: union-find rank
    i, j,       \* group_duplicates: the pair loop's indices
    groups,     \* group_duplicates: HashMap<usize, Vec<usize>>
    result,     \* the Result the call returned
    paths,      \* find_duplicates*: the paths argument
    fs,         \* the files behind the paths: what image::open yields
    variant,    \* which entry point the call is
    cursor,     \* find_duplicates: the for loop's position in paths
    pending,    \* find_duplicates_parallel: items no worker has finished
    slots,      \* find_duplicates_parallel: each item's filter_map output
    warnings,   \* lines written to stderr by the call
    calls,      \* the calls still to make, each [variant, paths]
    outs,       \* what each finished call returned and printed
    call,       \* a call of one of the pure functions: its name and inputs
    ret         \* what that call returned

gvars == <<images, threshold, parent, rank, i, j, groups, result>>
bvars == <<paths, fs, variant, cursor, pending, slots, warnings, calls, outs>>
fvars == <<call, ret>>
vars == <<pc, gvars, bvars, fvars>>

----------------------------------------------------------------------------
(* Bounds of the model *)

MaxItems == 3       \* items handed to group_duplicates
MaxPaths == 3       \* paths handed to find_duplicates*
MaxHexLen == 4      \* characters of a hex string
MaxBytes == 2       \* bytes of a fingerprint
MaxUnionItems == 4  \* items of the batches the union-find is followed on

Thresholds == {0, 1}
\* "a", "ab", "b"
PathPool == {<<97>>, <<97, 98>>, <<98>>}
\* what a decoded file yields, <<bits of its hash, resolution>>: one-byte
\* hashes 0x00, 0x01, 0x03 (at distances 1, 1 and 2), with and without equal
\* resolutions
Files == {<<(<<0>>), 1>>, <<(<<1>>), 1>>, <<(<<3>>), 2>>}
\* a further item for group_duplicates: a hash of another length, as another
\* hash_size yields
OtherFiles == {<<(<<1, 255>>), 1>>}
ByteSamples == {0, 1, 9, 10, 15, 16, 171, 255}

None == [tag |-> "None"]

----------------------------------------------------------------------------
(* u8 arithmetic *)

RECURSIVE xor(_, _, _)
\* a ^ b on w-bit operands
xor(a, b, w) ==
    IF w = 0 THEN 0
    ELSE (((a % 2) + (b % 2)) % 2) + 2 * xor(a \div 2, b \div 2, w - 1)

RECURSIVE count_ones(_)
count_ones(x) == IF x = 0 THEN 0 ELSE (x % 2) + count_ones(x \div 2)

----------------------------------------------------------------------------
(* hash.rs: ImageHash *)

isqrt(n) == CHOOSE r \in 0..n : r * r <= n /\ (r + 1) * (r + 1) > n

ImageHash(bits, size) == [bits |-> bits, size |-> size]

HexDigits == <<"0", "1", "2", "3", "4", "5", "6", "7",
               "8", "9", "a", "b", "c", "d", "e", "f">>
UpperDigits == <<"0", "1", "2", "3", "4", "5", "6", "7",
                 "8", "9", "A", "B", "C", "D", "E", "F">>

\* char::to_digit(16): the digit's value, or -1 for a character that is none
to_digit(c) ==
    IF \E k \in 1..16 : HexDigits[k] = c
    THEN (CHOOSE k \in 1..16 : HexDigits[k] = c) - 1
    ELSE IF \E k \in 1..16 : UpperDigits[k] = c
    THEN (CHOOSE k \in 1..16 : UpperDigits[k] = c) - 1
    ELSE -1

\* u8::from_str_radix(s, 16) on a two-character s: an optional '+' sign,
\* then digits only; -1 stands for Err(ParseIntError)
from_str_radix(s) ==
    LET digits == IF s[1] = "+" THEN Tail(s) ELSE s
    IN  IF \E k \in 1..Len(digits) : to_digit(digits[k]) = -1
        THEN -1
        ELSE IF Len(digits) = 1
        THEN to_digit(digits[1])
        ELSE 16 * to_digit(digits[1]) + to_digit(digits[2])

is_whitespace(c) == c = " "

RECURSIVE trim_start(_)
trim_start(s) ==
    IF s # <<>> /\ is_whitespace(Head(s)) THEN trim_start(Tail(s)) ELSE s

RECURSIVE trim_end(_)
trim_end(s) ==
    IF s # <<>> /\ is_whitespace(s[Len(s)])
    THEN trim_end(SubSeq(s, 1, Len(s) - 1))
    ELSE s

trim(s) == trim_end(trim_start(s))

from_hex(hex0) ==
    LET hex == trim(hex0)
        parsed == [k \in 1..(Len(hex) \div 2) |->
                      from_str_radix(SubSeq(hex, 2 * k - 1, 2 * k))]
    IN  IF Len(hex) % 2 # 0
        THEN [tag |-> "Err", msg |-> "Invalid hex string length"]
        ELSE IF \E k \in 1..Len(parsed) : parsed[k] = -1
        THEN [tag |-> "Err", msg |-> "Invalid hex"]
        ELSE [tag |-> "Ok", val |-> ImageHash(parsed, isqrt(Len(parsed) * 8))]

RECURSIVE to_hex_bytes(_)
to_hex_bytes(bits) ==
    IF bits = <<>> THEN <<>>
    ELSE <<HexDigits[(Head(bits) \div 16) + 1], HexDigits[(Head(bits) % 16) + 1]>>
         \o to_hex_bytes(Tail(bits))

RECURSIVE to_hex_unpadded(_)
\* to_hex as a bug would have it: "{:x}", no leading zero
to_hex_unpadded(bits) ==
    IF bits = <<>> THEN <<>>
    ELSE (IF Head(bits) < 16 THEN <<>> ELSE <<HexDigits[(Head(bits) \div 16) + 1]>>)
         \o <<HexDigits[(Head(bits) % 16) + 1]>>
         \o to_hex_unpadded(Tail(bits))

to_hex_nopad(h) == to_hex_unpadded(h.bits)

to_hex(h) == to_hex_bytes(h.bits)

RECURSIVE zip_sum(_, _)
zip_sum(a, b) ==
    IF a = <<>> \/ b = <<>> THEN 0
    ELSE count_ones(xor(Head(a), Head(b), 8)) + zip_sum(Tail(a), Tail(b))

\* ImageHash::distance: zip stops at the shorter of the two
distance(h1, h2) == zip_sum(h1.bits, h2.bits)

RECURSIVE insert_num(_, _)
insert_num(x, s) ==
    IF s = <<>> THEN <<x>>
    ELSE IF Head(s) <= x THEN <<Head(s)>> \o insert_num(x, Tail(s))
    ELSE <<x>> \o s

RECURSIVE sort_by(_)
\* sort_by(partial_cmp) on coefficients that are all comparable
sort_by(s) ==
    IF s = <<>> THEN <<>>
    ELSE insert_num(s[Len(s)], sort_by(SubSeq(s, 1, Len(s) - 1)))

\* bools_to_bytes: chunks of 8, the first bit of a chunk the most significant
bools_to_bytes(bools) ==
    LET chunk_sum[c \in 1..((Len(bools) + 7) \div 8), k \in 0..8] ==
            IF k = 0 THEN 0
            ELSE chunk_sum[c, k - 1] +
                 (IF 8 * (c - 1) + k <= Len(bools) /\ bools[8 * (c - 1) + k]
                  THEN 2 ^ (8 - k) ELSE 0)
    IN  [c \in 1..((Len(bools) + 7) \div 8) |-> chunk_sum[c, 8]]

\* the side of the matrix dct_2d yields: 32 in the code, scaled down here
dct_size == 3

RECURSIVE select_coeffs(_, _, _)
\* lines 100-108 from flat position k of the hash_size x hash_size grid on
select_coeffs(dct, hash_size, k) ==
    IF k >= hash_size * hash_size THEN <<>>
    ELSE <<dct[(k \div hash_size) * dct_size + (k % hash_size)]>>
         \o select_coeffs(dct, hash_size, k + 1)

\* lines 99-133 of compute_phash, from the matrix dct_2d returned
compute_phash(dct, hash_size) ==
    LET coeffs == select_coeffs(dct, hash_size, 1)
        sorted == sort_by(coeffs)
        median == sorted[(Len(sorted) \div 2) + 1]
        hash_bits == [k \in 1..(hash_size * hash_size - 1) |-> dct[k] > median]
        inserted == <<FALSE>> \o hash_bits
        padded == [k \in 1..(hash_size * hash_size) |->
                      IF k <= Len(inserted) THEN inserted[k] ELSE FALSE]
    IN  IF coeffs = <<>>
        THEN [tag |-> "Panic", msg |-> "index out of bounds"]
        ELSE [tag |-> "Return",
              val |-> ImageHash(bools_to_bytes(padded), hash_size)]

----------------------------------------------------------------------------
(* duplicate.rs: group_duplicates *)

ImageInfo(path, hash, resolution) ==
    [path |-> path, hash |-> hash, resolution |-> resolution]

RECURSIVE find(_, _)
\* find with path compression: the parent array it leaves and the root
find(p, x) ==
    IF p[x] # x
    THEN LET r == find(p, p[x])
         IN  [parent |-> [r.parent EXCEPT ![x] = r.root], root |-> r.root]
    ELSE [parent |-> p, root |-> p[x]]

\* union as a bug would have it: y linked under x without finding the roots
union_direct(p, rk, x, y) == [parent |-> [p EXCEPT ![y] = x], rank |-> rk]

\* union as a bug would have it: equal ranks linked, the root's rank not raised
union_no_bump(p, rk, x, y) ==
    LET fi == find(p, x)
        fj == find(fi.parent, y)
    IN  IF fi.root # fj.root
        THEN IF rk[fi.root] < rk[fj.root]
             THEN [parent |-> [fj.parent EXCEPT ![fi.root] = fj.root], rank |-> rk]
             ELSE [parent |-> [fj.parent EXCEPT ![fj.root] = fi.root], rank |-> rk]
        ELSE [parent |-> fj.parent, rank |-> rk]

\* union by rank: the parent and rank arrays it leaves
union(p, rk, x, y) ==
    LET fi == find(p, x)
        pi == fi.root
        fj == find(fi.parent, y)
        pj == fj.root
        p2 == fj.parent
    IN  IF pi # pj
        THEN IF rk[pi] < rk[pj]
             THEN [parent |-> [p2 EXCEPT ![pi] = pj], rank |-> rk]
             ELSE IF rk[pi] > rk[pj]
             THEN [parent |-> [p2 EXCEPT ![pj] = pi], rank |-> rk]
             ELSE [parent |-> [p2 EXCEPT ![pj] = pi],
                   rank |-> [rk EXCEPT ![pi] = rk[pi] + 1]]
        ELSE [parent |-> p2, rank |-> rk]

\* String's Ord: byte-wise lexicographic
RECURSIVE str_le(_, _)
str_le(a, b) ==
    IF a = <<>> THEN TRUE
    ELSE IF b = <<>> THEN FALSE
    ELSE IF Head(a) # Head(b) THEN Head(a) < Head(b)
    ELSE str_le(Tail(a), Tail(b))

RECURSIVE insert_sorted(_, _)
insert_sorted(x, s) ==
    IF s = <<>> THEN <<x>>
    ELSE IF str_le(Head(s), x) THEN <<Head(s)>> \o insert_sorted(x, Tail(s))
    ELSE <<x>> \o s

RECURSIVE sort(_)
\* Vec<String>::sort: stable, ascending
sort(s) ==
    IF s = <<>> THEN <<>>
    ELSE insert_sorted(s[Len(s)], sort(SubSeq(s, 1, Len(s) - 1)))

RECURSIVE max_by_key(_, _, _)
\* Iterator::max_by_key from the element best on: a later element replaces
\* the best so far unless the best so far is strictly greater
max_by_key(indices, best, imgs) ==
    IF indices = <<>> THEN best
    ELSE max_by_key(Tail(indices),
                    IF imgs[best].resolution > imgs[Head(indices)].resolution
                    THEN best ELSE Head(indices),
                    imgs)

\* the closure as a bug would have it: the paths left in index order
DuplicateGroup_unsorted(indices, imgs) ==
    [paths |-> [k \in 1..Len(indices) |-> imgs[indices[k]].path],
     hash |-> to_hex(imgs[indices[1]].hash),
     best_path |-> imgs[max_by_key(Tail(indices), Head(indices), imgs)].path]

\* the closure of lines 136-157: one DuplicateGroup from a group's indices
DuplicateGroup(indices, imgs) ==
    LET ps == [k \in 1..Len(indices) |-> imgs[indices[k]].path]
        best_idx == max_by_key(Tail(indices), Head(indices), imgs)
    IN  [paths |-> sort(ps),
         hash |-> to_hex(imgs[indices[1]].hash),
         best_path |-> imgs[best_idx].path]

RECURSIVE find_all(_, _, _)
\* the loop of lines 128-131 from index k on: the parent array after the
\* finds and each index's root
find_all(p, k, n) ==
    IF k >= n THEN [parent |-> p, roots |-> <<>>]
    ELSE LET f == find(p, k)
             rest == find_all(f.parent, k + 1, n)
         IN  [parent |-> rest.parent, roots |-> <<f.root>> \o rest.roots]

RECURSIVE indices_of(_, _, _)
\* the Vec pushed under root r: the indices with that root, ascending
indices_of(roots, r, k) ==
    IF k > Len(roots) THEN <<>>
    ELSE (IF roots[k] = r THEN <<k - 1>> ELSE <<>>) \o indices_of(roots, r, k + 1)

\* every order HashMap::into_values may yield the keys in
Orders(keys) ==
    {o \in [1..Cardinality(keys) -> keys] :
        \A a, b \in 1..Cardinality(keys) : a # b => o[a] # o[b]}

\* the next pair of the loops of lines 117-118 after (x, y); x = n when over
next_pair(x, y, n) ==
    IF y + 1 < n THEN <<x, y + 1>>
    ELSE IF x + 2 < n THEN <<x + 1, x + 2>>
    ELSE <<n, n>>

\* lines 83-90: the empty check and the union-find arrays
Begin ==
    /\ pc = "start"
    /\ IF images = <<>>
       THEN /\ result' = [tag |-> "Ok", val |-> <<>>]
            /\ pc' = "done"
            /\ UNCHANGED <<parent, rank, i, j>>
       ELSE /\ parent' = [k \in DOMAIN images |-> k]
            /\ rank' = [k \in DOMAIN images |-> 0]
            /\ i' = IF Cardinality(DOMAIN images) > 1 THEN 0 ELSE 1
            /\ j' = 1
            /\ pc' = "pairs"
            /\ UNCHANGED result
    /\ UNCHANGED <<images, threshold, groups, bvars, fvars>>

\* lines 117-124: one iteration of the pair loop
Compare ==
    /\ pc = "pairs"
    /\ i < Cardinality(DOMAIN images)
    /\ LET n == Cardinality(DOMAIN images)
           dist == distance(images[i].hash, images[j].hash)
           u == union(parent, rank, i, j)
           nx == next_pair(i, j, n)
       IN  /\ IF dist <= threshold
              THEN parent' = u.parent /\ rank' = u.rank
              ELSE UNCHANGED <<parent, rank>>
           /\ i' = nx[1]
           /\ j' = nx[2]
    /\ UNCHANGED <<pc, images, threshold, groups, result, bvars, fvars>>

\* lines 126-160: group by root, convert, return
Collect ==
    /\ pc = "pairs"
    /\ i >= Cardinality(DOMAIN images)
    /\ LET n == Cardinality(DOMAIN images)
           fa == find_all(parent, 0, n)
           keys == {fa.roots[k] : k \in 1..n}
           gs == [r \in keys |-> indices_of(fa.roots, r, 1)]
       IN  /\ parent' = fa.parent
           /\ groups' = gs
           /\ \E o \in Orders(keys) :
                 result' = [tag |-> "Ok",
                            val |-> [k \in 1..Len(o) |->
                                        DuplicateGroup(gs[o[k]], images)]]
    /\ pc' = "done"
    /\ UNCHANGED <<images, threshold, rank, i, j, bvars, fvars>>

ImageInfos == {ImageInfo(p, ImageHash(f[1], isqrt(Len(f[1]) * 8)), f[2]) :
                  p \in PathPool, f \in Files \cup OtherFiles}

NoBatch ==
    /\ paths = <<>> /\ fs = <<>> /\ variant = "none" /\ cursor = 0
    /\ pending = {} /\ slots = <<>> /\ warnings = <<>>
    /\ calls = <<>> /\ outs = <<>>

NoCall == call = None /\ ret = None

\* group_duplicates called on any batch
Init ==
    /\ pc = "start"
    /\ \E n \in 0..MaxItems : images \in [0..(n - 1) -> ImageInfos]
    /\ threshold \in Thresholds
    /\ parent = <<>> /\ rank = <<>> /\ i = 0 /\ j = 0
    /\ groups = <<>> /\ result = None
    /\ NoBatch
    /\ NoCall

Next == Begin \/ Compare \/ Collect

Spec == Init /\ [][Next]_vars

----------------------------------------------------------------------------
(* Reference notions the claims are stated with *)

Range(s) == {s[k] : k \in DOMAIN s}

BitAt(byte, k) == (byte \div (2 ^ k)) % 2

RECURSIVE DifferingBits(_, _, _)
\* number of the k low bit positions in which two bytes differ
DifferingBits(x, y, k) ==
    IF k = 0 THEN 0
    ELSE (IF x % 2 # y % 2 THEN 1 ELSE 0)
         + DifferingBits(x \div 2, y \div 2, k - 1)

RECURSIVE HammingBits(_, _)
\* number of bit positions in which two equally long byte strings differ
HammingBits(a, b) ==
    IF a = <<>> THEN 0
    ELSE DifferingBits(Head(a), Head(b), 8) + HammingBits(Tail(a), Tail(b))

UniformLength ==
    \A x, y \in DOMAIN images :
        Len(images[x].hash.bits) = Len(images[y].hash.bits)

Within(x, y) ==
    HammingBits(images[x].hash.bits, images[y].hash.bits) <= threshold

\* the pairs of items within the threshold of each other
Edges == {e \in (DOMAIN images) \X (DOMAIN images) : Within(e[1], e[2])}

RECURSIVE Reach(_, _)
\* the items linked to one of set by a chain of edges
Reach(set, edges) ==
    LET more == set \cup {e[2] : e \in {d \in edges : d[1] \in set}}
    IN  IF more = set THEN set ELSE Reach(more, edges)

Components ==
    LET edges == Edges IN {Reach({x}, edges) : x \in DOMAIN images}

Count(seq, p) == Cardinality({k \in DOMAIN seq : seq[k] = p})

\* seq lists exactly the paths of the items in set, each as often as it occurs
ListsPathsOf(seq, set) ==
    /\ Len(seq) = Cardinality(set)
    /\ \A p \in PathPool :
          Count(seq, p) = Cardinality({x \in set : images[x].path = p})

Sorted(seq) == \A k \in 1..(Len(seq) - 1) : str_le(seq[k], seq[k + 1])

\* C1: on a batch of equally long fingerprints the groups returned by
\* group_duplicates are exactly the connected components of the graph whose
\* edges are the pairs within the threshold: each item is in exactly one
\* group, chains are merged, an item with no partner is alone in its group,
\* and the empty batch yields the empty list.
C1_GroupsAreComponents ==
    (pc = "done" /\ variant = "none" /\ UniformLength) =>
        LET comps == Components
        IN  /\ result.tag = "Ok"
            /\ {Range(groups[r]) : r \in DOMAIN groups} = comps
            /\ \A r \in DOMAIN groups :
                  Len(groups[r]) = Cardinality(Range(groups[r]))
            /\ Len(result.val) = Cardinality(comps)
            /\ \E o \in Orders(comps) :
                  \A k \in 1..Len(o) : ListsPathsOf(result.val[k].paths, o[k])
            /\ (images = <<>> => result.val = <<>>)

\* a chain whose ends are further apart than the threshold, the ends compared
\* first, was grouped into one group of three
C1_Witness ==
    /\ pc = "done" /\ variant = "none" /\ UniformLength
    /\ Cardinality(DOMAIN images) = 3
    /\ ~Within(0, 1) /\ Within(0, 2) /\ Within(1, 2)
    /\ Len(result.val) = 1
    /\ Len(result.val[1].paths) = 3

\* C3: a batch with two fingerprints of different byte lengths makes
\* group_duplicates return an error and no groups.
C3_MismatchAborts ==
    (pc = "done" /\ variant = "none" /\ ~UniformLength) => result.tag = "Err"

\* the member of lowest index among those of greatest resolution
FirstMax(indices) ==
    CHOOSE x \in Range(indices) :
        /\ \A y \in Range(indices) : images[y].resolution <= images[x].resolution
        /\ \A y \in Range(indices) :
              images[y].resolution = images[x].resolution => x <= y

\* C4: in every returned group bestMember is the member of greatest
\* sizeMetric, the one of lowest input index when several tie.
C4_BestIsFirstMax ==
    (pc = "done" /\ variant = "none" /\ images # <<>>) =>
        \A r \in DOMAIN groups :
            \E k \in 1..Len(result.val) :
                /\ ListsPathsOf(result.val[k].paths, Range(groups[r]))
                /\ result.val[k].best_path = images[FirstMax(groups[r])].path

----------------------------------------------------------------------------
(* The fingerprint's functions, each applied to inputs drawn by InitFn *)

HexChars == {"0", "9", "a", "f", "A", "F", "g", "+", "-", " "}
BindingChars == {"0", "f", "g"}
DistanceBytes == {0, 1, 3, 255}
Coefficients == {0, 1, 2}

StringsOver(chars, n) == UNION {[1..m -> chars] : m \in 0..n}

Hashes(bytes) ==
    {ImageHash(b, isqrt(Len(b) * 8)) : b \in StringsOver(bytes, MaxBytes)}

NoGroup ==
    /\ images = <<>> /\ parent = <<>> /\ rank = <<>>
    /\ i = 0 /\ j = 0 /\ groups = <<>> /\ result = None

InitFn ==
    /\ pc = "call"
    /\ ret = None
    /\ \/ \E s \in StringsOver(HexChars, MaxHexLen) :
             call = [op |-> "from_hex", hex |-> s]
       \/ \E h \in Hashes(ByteSamples) : call = [op |-> "to_hex", hash |-> h]
       \/ \E a, b \in Hashes(DistanceBytes) :
             call = [op |-> "distance", a |-> a, b |-> b]
       \/ \E s1, s2 \in StringsOver(BindingChars, MaxHexLen) :
             call = [op |-> "hamming_distance", hash1 |-> s1, hash2 |-> s2]
    /\ NoGroup /\ threshold = 0
    /\ NoBatch

ApplyFromHex ==
    /\ pc = "call" /\ call.op = "from_hex"
    /\ ret' = from_hex(call.hex)
    /\ pc' = "done"
    /\ UNCHANGED <<call, gvars, bvars>>

ApplyToHex ==
    /\ pc = "call" /\ call.op = "to_hex"
    /\ ret' = to_hex(call.hash)
    /\ pc' = "done"
    /\ UNCHANGED <<call, gvars, bvars>>

ApplyDistance ==
    /\ pc = "call" /\ call.op = "distance"
    /\ ret' = [tag |-> "u32", val |-> distance(call.a, call.b)]
    /\ pc' = "done"
    /\ UNCHANGED <<call, gvars, bvars>>

\* lib.rs: the hamming_distance binding
hamming_distance(hash1, hash2) ==
    LET h1 == from_hex(hash1)
        h2 == from_hex(hash2)
    IN  IF h1.tag = "Err" THEN [tag |-> "Err", msg |-> "PyValueError"]
        ELSE IF h2.tag = "Err" THEN [tag |-> "Err", msg |-> "PyValueError"]
        ELSE [tag |-> "Ok", val |-> distance(h1.val, h2.val)]

ApplyHammingDistance ==
    /\ pc = "call" /\ call.op = "hamming_distance"
    /\ ret' = hamming_distance(call.hash1, call.hash2)
    /\ pc' = "done"
    /\ UNCHANGED <<call, gvars, bvars>>

NextFn == ApplyFromHex \/ ApplyToHex \/ ApplyDistance \/ ApplyHammingDistance

SpecFn == InitFn /\ [][NextFn]_vars

InitPhash ==
    /\ pc = "call"
    /\ ret = None
    /\ \E d \in [0..(dct_size * dct_size - 1) -> Coefficients],
          hs \in 1..dct_size :
             call = [op |-> "compute_phash", dct |-> d, hash_size |-> hs]
    /\ NoGroup /\ threshold = 0
    /\ NoBatch

ApplyComputePhash ==
    /\ pc = "call" /\ call.op = "compute_phash"
    /\ ret' = compute_phash(call.dct, call.hash_size)
    /\ pc' = "done"
    /\ UNCHANGED <<call, gvars, bvars>>

NextPhash == ApplyComputePhash

SpecPhash == InitPhash /\ [][NextPhash]_vars

----------------------------------------------------------------------------
(* Claims about the fingerprint's functions *)

\* C2: hammingDistance of two fingerprints of different byte lengths (given
\* as ImageHash values, or as two hex strings that both decode) fails with
\* an error and returns no integer.
C2_MismatchFails ==
    (/\ pc = "done"
     /\ \/ /\ call.op = "distance"
           /\ Len(call.a.bits) # Len(call.b.bits)
        \/ /\ call.op = "hamming_distance"
           /\ from_hex(call.hash1).tag = "Ok"
           /\ from_hex(call.hash2).tag = "Ok"
           /\ Len(from_hex(call.hash1).val.bits) # Len(from_hex(call.hash2).val.bits))
    => ret.tag = "Err"

\* bit number k (0 the first) of a fingerprint's packed bytes
BitOf(bits, k) == BitAt(bits[(k \div 8) + 1], 7 - (k % 8))

\* the non-DC coefficients of the top-left hs x hs submatrix, by position
SubPositions(hs) == ((0..(hs - 1)) \X (0..(hs - 1))) \ {<<0, 0>>}

\* the element at index floor(n/2) of the ascending list of the non-DC
\* coefficients of the submatrix
MedianOf(dct, hs) ==
    CHOOSE m \in {dct[q[2] * dct_size + q[1]] : q \in SubPositions(hs)} :
        LET below == Cardinality({q \in SubPositions(hs) :
                                     dct[q[2] * dct_size + q[1]] < m})
            upto == Cardinality({q \in SubPositions(hs) :
                                     dct[q[2] * dct_size + q[1]] <= m})
            mid == Cardinality(SubPositions(hs)) \div 2
        IN  below <= mid /\ mid < upto

\* C5: compute_phash yields hash_size^2 bits in row-major order of the
\* top-left submatrix: bit y*hash_size + x is 1 exactly when the coefficient
\* at row y, column x exceeds the median of the submatrix's non-DC
\* coefficients, and bit 0 is 0.
C5_BitsAreSubmatrix ==
    (pc = "done" /\ call.op = "compute_phash") =>
        /\ ret.tag = "Return"
        /\ Len(ret.val.bits) = (call.hash_size * call.hash_size + 7) \div 8
        /\ BitOf(ret.val.bits, 0) = 0
        /\ \A q \in SubPositions(call.hash_size) :
              BitOf(ret.val.bits, q[2] * call.hash_size + q[1]) =
                  (IF call.dct[q[2] * dct_size + q[1]]
                         > MedianOf(call.dct, call.hash_size)
                   THEN 1 ELSE 0)

IsHexDigit(c) == to_digit(c) # -1

\* C6: from_hex returns a fingerprint exactly for the even-length strings
\* made of hex digits only, and a validation error for every other string.
C6_RejectsMalformed ==
    (pc = "done" /\ call.op = "from_hex") =>
        (ret.tag = "Ok" <=>
            /\ Len(call.hex) % 2 = 0
            /\ \A k \in 1..Len(call.hex) : IsHexDigit(call.hex[k]))

IsLowerHex(s) == \A k \in 1..Len(s) : \E d \in 1..16 : HexDigits[d] = s[k]

\* C7: from_hex(to_hex(f)) succeeds with the bytes of f, and
\* to_hex(from_hex(s)) = s for every even-length lowercase hex string s.
C7_HexRoundTrip ==
    /\ (pc = "done" /\ call.op = "to_hex") =>
          /\ from_hex(ret).tag = "Ok"
          /\ from_hex(ret).val.bits = call.hash.bits
    /\ (pc = "done" /\ call.op = "from_hex"
           /\ Len(call.hex) % 2 = 0 /\ IsLowerHex(call.hex)) =>
          /\ ret.tag = "Ok"
          /\ to_hex(ret.val) = call.hex

\* a fingerprint with a byte below 0x10 was serialized, and a lowercase
\* string was parsed
C7_Witness ==
    /\ pc = "done"
    /\ \/ /\ call.op = "to_hex"
          /\ call.hash.bits = <<171, 9>>
          /\ ret = <<"a", "b", "0", "9">>
       \/ /\ call.op = "from_hex"
          /\ call.hex = <<"f", "0", "9", "a">>
          /\ ret.tag = "Ok" /\ ret.val.bits = <<240, 154>>

----------------------------------------------------------------------------
(* duplicate.rs: find_duplicates and find_duplicates_parallel *)

\* image::open on a path of the file system: the decoded file or an error
open(files, path) == files[path]

\* ImageHash::from_path(path, algorithm, 8): the hash compute_phash yields
\* for the decoded image (of one byte here, where the code's has eight)
from_path(files, path) ==
    IF open(files, path).tag = "Err"
    THEN [tag |-> "Err", msg |-> "Failed to open image"]
    ELSE [tag |-> "Ok",
          val |-> ImageHash(open(files, path).bits,
                            isqrt(Len(open(files, path).bits) * 8))]

\* get_image_resolution(path).unwrap_or(0)
get_image_resolution(files, path) ==
    IF open(files, path).tag = "Err" THEN 0 ELSE open(files, path).resolution

\* Vec::push on a vector indexed from 0
push(vec, x) ==
    [k \in 0..Cardinality(DOMAIN vec) |->
        IF k < Cardinality(DOMAIN vec) THEN vec[k] ELSE x]

RECURSIVE collect_reversed(_, _, _)
\* collect() as a bug would have it: the items in another order than given
collect_reversed(outputs, k, acc) ==
    IF k > Len(outputs) THEN acc
    ELSE collect_reversed(outputs, k + 1,
                          IF outputs[Len(outputs) + 1 - k].tag = "Some"
                          THEN push(acc, outputs[Len(outputs) + 1 - k].val)
                          ELSE acc)

RECURSIVE collect(_, _, _)
\* collect() over the filter_map outputs: the Some values in the order of
\* the items, whatever order the workers finished in
collect(outputs, k, acc) ==
    IF k > Len(outputs) THEN acc
    ELSE collect(outputs, k + 1,
                 IF outputs[k].tag = "Some" THEN push(acc, outputs[k].val)
                 ELSE acc)

\* the closure of lines 66-75 on one path
filter_map_item(files, path) ==
    IF from_path(files, path).tag = "Ok"
    THEN [tag |-> "Some",
          val |-> ImageInfo(path, from_path(files, path).val,
                            get_image_resolution(files, path))]
    ELSE [tag |-> "None"]

\* a caller calls the next entry point of its list
Call ==
    /\ pc = "idle"
    /\ calls # <<>>
    /\ variant' = Head(calls).variant
    /\ paths' = Head(calls).paths
    /\ calls' = Tail(calls)
    /\ cursor' = 1
    /\ pending' = DOMAIN Head(calls).paths
    /\ slots' = [k \in DOMAIN Head(calls).paths |-> [tag |-> "None"]]
    /\ warnings' = <<>>
    /\ images' = <<>>
    /\ parent' = <<>> /\ rank' = <<>> /\ i' = 0 /\ j' = 0
    /\ groups' = <<>> /\ result' = None
    /\ pc' = IF Head(calls).paths = <<>> THEN "start" ELSE "hash"
    /\ UNCHANGED <<threshold, fs, outs, fvars>>

\* find_duplicates, lines 38-52: one iteration of the loop over paths
HashNext ==
    /\ pc = "hash"
    /\ variant = "find_duplicates"
    /\ IF from_path(fs, paths[cursor]).tag = "Ok"
       THEN /\ images' = push(images,
                              ImageInfo(paths[cursor],
                                        from_path(fs, paths[cursor]).val,
                                        get_image_resolution(fs, paths[cursor])))
            /\ UNCHANGED warnings
       ELSE /\ warnings' = Append(warnings, paths[cursor])
            /\ UNCHANGED images
    /\ cursor' = cursor + 1
    /\ pc' = IF cursor = Len(paths) THEN "start" ELSE "hash"
    /\ UNCHANGED <<threshold, parent, rank, i, j, groups, result,
                   paths, fs, variant, pending, slots, calls, outs, fvars>>

\* find_duplicates_parallel, lines 64-76: some worker finishes some item;
\* the last one to finish lets collect() return
WorkerDone ==
    /\ pc = "hash"
    /\ variant = "find_duplicates_parallel"
    /\ \E k \in pending :
          LET filled == [slots EXCEPT ![k] = filter_map_item(fs, paths[k])]
          IN  /\ slots' = filled
              /\ pending' = pending \ {k}
              /\ IF pending = {k}
                 THEN images' = collect(filled, 1, <<>>) /\ pc' = "start"
                 ELSE UNCHANGED <<images, pc>>
    /\ UNCHANGED <<threshold, parent, rank, i, j, groups, result,
                   paths, fs, variant, cursor, warnings, calls, outs, fvars>>

\* the entry point returns what group_duplicates returned
Return ==
    /\ pc = "done"
    /\ variant # "none"
    /\ outs' = Append(outs, [variant |-> variant, paths |-> paths,
                             result |-> result, warnings |-> warnings])
    /\ pc' = "idle"
    /\ UNCHANGED <<gvars, paths, fs, variant, cursor, pending, slots,
                   warnings, calls, fvars>>

Variants == {"find_duplicates", "find_duplicates_parallel"}

IsPermutation(a, b) ==
    /\ Len(a) = Len(b)
    /\ \A p \in PathPool : Count(a, p) = Count(b, p)

DecodedFiles ==
    {[tag |-> "Ok", bits |-> f[1], resolution |-> f[2]] : f \in Files}
        \cup {[tag |-> "Err"]}

\* a caller that calls the entry points twice over the same files: the
\* sequential one on a list of paths, then either one on a permutation of
\* that list (the same list included)
InitBatch ==
    /\ pc = "idle"
    /\ threshold = 1
    /\ \E ps1, ps2 \in StringsOver(PathPool, MaxPaths), v2 \in Variants :
          /\ IsPermutation(ps1, ps2)
          /\ calls = <<[variant |-> "find_duplicates", paths |-> ps1],
                       [variant |-> v2, paths |-> ps2]>>
          /\ fs \in [Range(ps1) -> DecodedFiles]
    /\ paths = <<>> /\ variant = "none" /\ cursor = 0
    /\ pending = {} /\ slots = <<>> /\ warnings = <<>> /\ outs = <<>>
    /\ NoGroup
    /\ NoCall

NextBatch ==
    Call \/ HashNext \/ WorkerDone \/ Begin \/ Compare \/ Collect \/ Return

SpecBatch == InitBatch /\ [][NextBatch]_vars

----------------------------------------------------------------------------
(* Claims about the batch entry points *)

PathLists(out) == {out.result.val[k].paths : k \in 1..Len(out.result.val)}

\* C8: run on a permutation of the same paths, the grouping returns groups
\* of the same members, each listed in the same (sorted) order.
C8_PermutationInvariant ==
    Len(outs) = 2 =>
        /\ outs[1].result.tag = "Ok" /\ outs[2].result.tag = "Ok"
        /\ Len(outs[1].result.val) = Len(outs[2].result.val)
        /\ PathLists(outs[1]) = PathLists(outs[2])
        /\ \A ps \in PathLists(outs[1]) \cup PathLists(outs[2]) : Sorted(ps)

\* both calls returned, the second on a reordered list, with a group of
\* several members and a second group
C8_Witness ==
    /\ Len(outs) = 2
    /\ outs[1].paths # outs[2].paths
    /\ Len(outs[2].result.val) = 2
    /\ \E ps \in PathLists(outs[2]) : Len(ps) = 2 /\ ps[1] # ps[2]

Fails(p) == from_path(fs, p).tag = "Err"

Members(out, p) ==
    Cardinality({m \in (1..Len(out.result.val)) \X (1..MaxPaths + 1) :
                    /\ m[2] <= Len(out.result.val[m[1]].paths)
                    /\ out.result.val[m[1]].paths[m[2]] = p})

\* C9: in both entry points a path whose decode fails does not abort the
\* batch: the call returns Ok, the path is in no group, every other path is
\* in a group, and a warning is emitted for each omitted item.
C9_FailuresSkippedWithWarning ==
    \A n \in 1..Len(outs) :
        /\ outs[n].result.tag = "Ok"
        /\ \A p \in Range(outs[n].paths) :
              IF Fails(p)
              THEN /\ Members(outs[n], p) = 0
                   /\ Count(outs[n].warnings, p) = Count(outs[n].paths, p)
              ELSE Members(outs[n], p) = Count(outs[n].paths, p)

SameInput ==
    /\ Len(outs) = 2
    /\ outs[1].variant = "find_duplicates"
    /\ outs[2].variant = "find_duplicates_parallel"
    /\ outs[1].paths = outs[2].paths

\* C10: on the same paths and threshold find_duplicates and
\* find_duplicates_parallel return the same list of groups.
C10_SameList ==
    SameInput => outs[1].result = outs[2].result

\* C10 as amended: they return the same groups (members, representative
\* hash and best path), in a list whose order is that of a HashMap's values
\* and may differ from call to call.
C10_SameGroups ==
    SameInput =>
        /\ outs[1].result.tag = "Ok" /\ outs[2].result.tag = "Ok"
        /\ Len(outs[1].result.val) = Len(outs[2].result.val)
        /\ Range(outs[1].result.val) = Range(outs[2].result.val)

\* both variants returned on the same three paths, one of them undecodable,
\* the other two grouped with equal resolutions
C10_Witness ==
    /\ SameInput
    /\ Len(outs[1].paths) = 3
    /\ \E p \in Range(outs[1].paths) : Fails(p)
    /\ Len(outs[2].result.val) = 1
    /\ Len(outs[2].result.val[1].paths) = 2
    /\ outs[2].result.val[1].paths[1] # outs[2].result.val[1].paths[2]

----------------------------------------------------------------------------
(* group_duplicates followed for its union-find arrays: batches long enough  *)
(* for two trees of rank 1 to be merged, so that find has a path to compress *)

\* one-byte hashes of which several are a single bit apart
UnionHashes == {<<0>>, <<1>>, <<2>>, <<3>>, <<7>>}

UnionItems == {ImageInfo(<<97>>, ImageHash(h, isqrt(Len(h) * 8)), 1) :
                  h \in UnionHashes}

InitUnion ==
    /\ pc = "start"
    /\ \E n \in 0..MaxUnionItems : images \in [0..(n - 1) -> UnionItems]
    /\ threshold \in Thresholds
    /\ parent = <<>> /\ rank = <<>> /\ i = 0 /\ j = 0
    /\ groups = <<>> /\ result = None
    /\ NoBatch
    /\ NoCall

SpecUnion == InitUnion /\ [][Next]_vars

RECURSIVE Walk(_, _, _)
\* the index reached from x by following k parent pointers
Walk(p, x, k) == IF k = 0 THEN x ELSE Walk(p, p[x], k - 1)

\* where the parent pointers lead from x, if they lead to a root at all
RootOf(p, x) == Walk(p, x, Cardinality(DOMAIN p))

\* every pointer in range, and every index led to a root (an index that is
\* its own parent) within n steps: no cycle but the roots' self-loops
IsForest(p) ==
    /\ \A x \in DOMAIN p : p[x] \in DOMAIN p
    /\ \A x \in DOMAIN p : p[RootOf(p, x)] = RootOf(p, x)

RankOrdered(p, rk) == \A x \in DOMAIN p : p[x] # x => rk[x] < rk[p[x]]

SamePartition(p, q) ==
    \A x, y \in DOMAIN p :
        (RootOf(p, x) = RootOf(p, y)) <=> (RootOf(q, x) = RootOf(q, y))

\* find called on x in a forest p: it returns x's root and leaves a forest
\* with the same sets and the ranks still ordered
FindKeeps(p, rk, x) ==
    LET f == find(p, x)
    IN  /\ f.root = RootOf(p, x)
        /\ IsForest(f.parent)
        /\ RankOrdered(f.parent, rk)
        /\ SamePartition(p, f.parent)

\* C11: whenever group_duplicates holds its union-find arrays, parent is a
\* forest over 0..n-1 and every non-root has a rank strictly below its
\* parent's; each find the code is about to make (the two of a union, the
\* n of the grouping loop, one after the other) returns the root, terminates,
\* and its path compression leaves a forest with the same sets.
C11_UnionFindForest ==
    (pc \in {"pairs", "done"} /\ variant = "none" /\ images # <<>>) =>
        LET n == Cardinality(DOMAIN images)
        IN  /\ DOMAIN parent = 0..(n - 1) /\ DOMAIN rank = 0..(n - 1)
            /\ IsForest(parent)
            /\ RankOrdered(parent, rank)
            /\ (pc = "pairs" /\ i < n
                   /\ distance(images[i].hash, images[j].hash) <= threshold) =>
                  /\ FindKeeps(parent, rank, i)
                  /\ FindKeeps(find(parent, i).parent, rank, j)
            /\ (pc = "pairs" /\ i >= n) =>
                  \A m \in 0..(n - 1) :
                      FindKeeps(find_all(parent, 0, m).parent, rank, m)

\* the grouping loop is about to run on a tree of depth 2 (two trees of
\* rank 1 were merged), which its finds will compress
C11_Witness ==
    /\ pc = "pairs" /\ variant = "none"
    /\ i >= Cardinality(DOMAIN images)
    /\ \E x \in DOMAIN parent :
          /\ parent[x] # x /\ parent[parent[x]] # parent[x]
          /\ rank[parent[parent[x]]] = 2
          /\ find(parent, x).parent # parent

====
